---- MODULE Spec2Model ----
(***************************************************************************)
(* pswalker/skywalker.py: branching_plan.                                  *)
(*                                                                         *)
(* branching_plan(plan, branches, branch_choice, branch_msg) hands the     *)
(* primary plan and the closure branch_handler to bluesky's plan_mutator   *)
(* (line 75).  The model is the state machine of that call: the stack of   *)
(* generators plan_mutator drives (the primary plan and the new_gen        *)
(* generators branch_handler returns), the set of messages it has already  *)
(* shown to branch_handler, the closure's branch_lock, and the consumer    *)
(* (the RunEngine) that pulls one message at a time and may throw an       *)
(* exception in or close the stream.                                       *)
(*                                                                         *)
(* Plans are lazy generators: what the primary plan and a branch plan      *)
(* yield next (a message of some kind, the end, or for a branch an         *)
(* exception) is chosen when they are resumed.  Plans yield a new Msg      *)
(* object each time and do not catch exceptions thrown into them.          *)
(* branch_choice reads live devices: each call may return anything.        *)
(***************************************************************************)
EXTENDS Integers, Sequences, FiniteSets

\* ---------------------------------------------------------------- bounds
MaxPlanLen == 2        \* messages the primary plan yields at most
MaxBranchLen == 1      \* messages one run of a branch plan yields at most
MaxDispatch == 2       \* commands a RunEngine made by lcls_RE dispatches at most

\* ------------------------------------------------------------- constants
None == -1                       \* Python's None as a branch_choice() result
NumBranches == 2                 \* len(branches): [recover_m1, recover_m2]
Kinds == {"checkpoint", "set"}   \* Msg.command values plans yield here
TriggerKinds == {"checkpoint", "set"}   \* values given to branch_msg
Choices == {None} \cup (0 .. NumBranches - 1)
Free == 0                        \* branch_lock unlocked

VARIABLES
  branch_msg,   \* the branch_msg argument
  plan_stack,   \* plan_mutator's plan_stack: generator frames, top last
  planCmds,     \* the messages the primary plan has yielded so far
  branch_lock,  \* Free, or the index of the primary message whose new_gen holds it
  pc,           \* "send", "proc", "yield", "done", "raised", "closed"
  msg,          \* plan_mutator's current msg
  msgs_seen,    \* plan_mutator's msgs_seen
  exception,    \* plan_mutator's stashed exception: "None", "BranchFailure", "CommandFailure"
  out,          \* the messages branching_plan has yielded, in order
  selLog,       \* every branch_choice() call: result, caller, the msg handled
  branchRuns,   \* every branches[choice]() call: the msg handled and choice
  raisedIn,     \* indices of the primary messages whose branch plan raised
  other,        \* a second branching_plan call: its own branch_lock
  sus,          \* lcls_RE: the RunEngine, its suspenders and the signals they watch
  homs,         \* make_homs_recover / make_pick_recover: devices and last results
  pth           \* pswalker.path: a path, its devices and the last results

vars == <<branch_msg, plan_stack, planCmds, branch_lock, pc, msg, msgs_seen,
          exception, out, selLog, branchRuns, raisedIn, other, sus, homs, pth>>

\* ------------------------------------------------------------- messages
\* A Msg object.  command is Msg.command; the other fields are the object's
\* identity: who created it (src), for which primary message (trig: its
\* index in the primary plan's stream), and for a branch message the branch
\* index and the position in that run of the branch.
Msg(command, src, trig, br, k) ==
  [command |-> command, src |-> src, trig |-> trig, br |-> br, k |-> k]

NoMsg == Msg("none", "none", 0, None, 0)

PlanMsg(kind, n) == Msg(kind, "plan", n, None, 0)

\* (faulty variant: the fresh message is of the kind given as branch_msg)
checkpoint_OfKind(trig) == Msg(branch_msg, "checkpoint", trig, None, 0)

\* bluesky.plans.checkpoint(): yield Msg('checkpoint')
checkpoint(trig) == Msg("checkpoint", "checkpoint", trig, None, 0)

\* bluesky.plans.null(): yield Msg('null')
null(trig) == Msg("null", "null", trig, None, 0)

BranchMsg(kind, trig, br, k) == Msg(kind, "branch", trig, br, k)

\* --------------------------------------------------------------- frames
\* A generator on plan_stack.  The primary plan, or a new_gen with the msg
\* it closed over and the place it is suspended at:
\*   "start"      created, not yet run
\*   "checkpoint" at `yield from checkpoint()`
\*   "branch"     inside branches[br](), after its k-th message
\*   "null"       at `yield null()`
\*   "msg"        at `yield msg`
PlanFrame == [gen |-> "plan", msg |-> NoMsg, at |-> "run", br |-> None, k |-> 0]

NewGenFrame(m) == [gen |-> "new_gen", msg |-> m, at |-> "start", br |-> None, k |-> 0]

Top == plan_stack[Len(plan_stack)]

\* (faulty variant: the finished generator stays on the stack)
Pop_Keep(s) == s

Pop(s) == SubSeq(s, 1, Len(s) - 1)

ReplaceTop(s, f) == [s EXCEPT ![Len(s)] = f]

\* (faulty variant: the lock taken without `with`, so unwinding does not release it)
WithExit_NoRelease(frame, lock) == lock

\* `with branch_lock:` in new_gen: the lock after the frame is unwound (by
\* its end, by an exception passing through it, or by close()).  A new_gen
\* that never ran has not entered the with block.
WithExit(frame, lock) ==
  IF frame.gen = "new_gen" /\ frame.at # "start" THEN Free ELSE lock

\* (faulty variant: new_gen runs without taking the lock)
WithEnter_NoAcquire(frame) == Free

\* `with branch_lock:` in new_gen: the lock once the frame has entered the
\* with block, held for the message the frame was made for
WithEnter(frame) == frame.msg.trig

\* (faulty variant: one module-level Lock shared by every branching_plan call)
OwnLock_Shared(own, others) == IF others # Free THEN others ELSE own

\* `branch_lock = Lock()` in the body of branching_plan: each call makes its
\* own lock, so what its branch_handler tests is its own lock whatever the
\* lock of another call (others) is
OwnLock(own, others) == own

\* ------------------------------------------------------- branch_handler
\* (faulty variant: no test of msg.command)
branch_handler_AnyMsg(m, lock) ==
  IF lock = Free
    THEN [new_gen |-> TRUE, lock |-> Free]
    ELSE [new_gen |-> FALSE, lock |-> lock]

\* (faulty variant: the test of msg.command inverted)
branch_handler_Inverted(m, lock) ==
  IF m.command # branch_msg
    THEN IF lock = Free
           THEN [new_gen |-> TRUE, lock |-> Free]
           ELSE [new_gen |-> FALSE, lock |-> lock]
    ELSE [new_gen |-> FALSE, lock |-> lock]

\* (faulty variant: the release not under `if has_lock`)
branch_handler_ReleaseAlways(m, lock) ==
  IF m.command = branch_msg
    THEN [new_gen |-> (lock = Free), lock |-> Free]
    ELSE [new_gen |-> FALSE, lock |-> lock]

\* (faulty variant: has_lock not tested)
branch_handler_NoLock(m, lock) ==
  IF m.command = branch_msg
    THEN [new_gen |-> TRUE, lock |-> lock]
    ELSE [new_gen |-> FALSE, lock |-> lock]

\* (faulty variant: no release in a finally clause, the acquisition is kept)
branch_handler_KeepsLock(m, lock) ==
  IF m.command = branch_msg
    THEN IF lock = Free
           THEN [new_gen |-> TRUE, lock |-> m.trig]
           ELSE [new_gen |-> FALSE, lock |-> lock]
    ELSE [new_gen |-> FALSE, lock |-> lock]

\* branch_handler(msg) with branch_lock = lock: whether it returns a new_gen
\* for msg (new_gen |-> TRUE: `return new_gen(), None`) or `None, None`, and
\* the lock afterwards.  The non-blocking acquire succeeds on a free lock
\* only; the finally clause releases it before returning.
branch_handler(m, lock) ==
  IF m.command = branch_msg
    THEN LET has_lock == (lock = Free) IN
         IF has_lock
           THEN [new_gen |-> TRUE, lock |-> Free]
           ELSE [new_gen |-> FALSE, lock |-> lock]
    ELSE [new_gen |-> FALSE, lock |-> lock]

\* -------------------------------------------------------------- new_gen
\* (faulty variant: the detour taken whatever branch_choice() returns)
TakesDetour_Always(r) == TRUE

\* `if branch_choice() is not None:` for the result r of that call
TakesDetour(r) == r # None

\* (faulty variant: msg itself yielded first)
FreshMsg_Same(f) == f.msg

\* `yield from checkpoint()`: the message new_gen yields first on a detour
FreshMsg(f) == checkpoint(f.msg.trig)

\* (faulty variant: a new checkpoint yielded last instead of msg)
ResumeMsg_Fresh(f) == checkpoint(f.msg.trig)

\* `yield msg`: the message new_gen yields last, for its frame f
ResumeMsg(f) == f.msg

\* ------------------------------------------------------ branch_choice
Max(S) == CHOOSE x \in S : \A y \in S : y <= x

\* (faulty variant: the statements after `return None` are what runs)
pick_recover_Live(y1, y2, reads1, reads2, threshold) ==
  IF y1 = "IN" THEN (IF Max(reads1) < threshold[1] THEN 0 ELSE None)
  ELSE IF y2 = "IN" THEN (IF Max(reads2) < threshold[2] THEN 1 ELSE None)
  ELSE None

\* pick_recover(): its first statement is `return None`; the sampling code
\* after it never runs
pick_recover(y1, y2, reads1, reads2, threshold) == None

\* branch_choice(): the results a call can return.  A selector reads live
\* devices, so any result is possible at any call; in a homs_skywalker
\* session the selector is the function made by make_pick_recover.
branch_choice ==
  IF homs.phase = "made"
    THEN {pick_recover(homs.y1, homs.y2, homs.reads1, homs.reads2, homs.threshold)}
    ELSE Choices

SelEntry(r, site, f) == [res |-> r, site |-> site, msg |-> f.msg]

\* new_gen's first run: enter `with branch_lock` (a blocking acquire, which
\* never returns while the lock is held), call branch_choice(), and yield
\* the fresh checkpoint or, with no detour, msg itself.
NewGenStart ==
  /\ pc = "send" /\ exception = "None" /\ plan_stack # <<>>
  /\ Top.gen = "new_gen" /\ Top.at = "start"
  /\ OwnLock(branch_lock, other.lock) = Free
  /\ branch_lock' = WithEnter(Top)
  /\ \E r \in branch_choice :
       /\ selLog' = Append(selLog, SelEntry(r, "new_gen", Top))
       /\ IF TakesDetour(r)
            THEN /\ msg' = FreshMsg(Top)
                 /\ plan_stack' = ReplaceTop(plan_stack, [Top EXCEPT !.at = "checkpoint"])
            ELSE /\ msg' = ResumeMsg(Top)
                 /\ plan_stack' = ReplaceTop(plan_stack, [Top EXCEPT !.at = "msg"])
  /\ pc' = "proc"
  /\ UNCHANGED <<other, sus, homs, pth, branch_msg, planCmds, msgs_seen, exception, out, branchRuns, raisedIn>>

\* (faulty variant: new_gen catches the exception and goes on to `yield msg`)
BranchRaise_Swallowed(f) ==
  /\ msg' = ResumeMsg(f)
  /\ plan_stack' = ReplaceTop(plan_stack, [f EXCEPT !.at = "msg"])
  /\ pc' = "proc"
  /\ raisedIn' = raisedIn \cup {f.msg.trig}
  /\ UNCHANGED <<branch_lock, exception>>

\* The branch plan running in frame f raises.  new_gen has no handler: the
\* exception leaves the with block (releasing the lock) and new_gen; plan_mutator
\* pops the dead generator and stashes the exception for the one below.
BranchRaise(f) ==
  /\ branch_lock' = WithExit(f, branch_lock)
  /\ plan_stack' = Pop(plan_stack)
  /\ exception' = "BranchFailure"
  /\ raisedIn' = raisedIn \cup {f.msg.trig}
  /\ pc' = "send"
  /\ msg' = msg

\* `yield from branch()` resumed in frame f (f.br the branch, f.k the messages
\* it has yielded): the branch plan yields its next message, or ends (then
\* new_gen goes on to `yield msg`), or raises.
RunBranch(f) ==
  \/ /\ f.k < MaxBranchLen
     /\ \E kind \in Kinds : msg' = BranchMsg(kind, f.msg.trig, f.br, f.k + 1)
     /\ plan_stack' = ReplaceTop(plan_stack, [f EXCEPT !.at = "branch", !.k = f.k + 1])
     /\ pc' = "proc"
     /\ UNCHANGED <<branch_lock, exception, raisedIn>>
  \/ /\ msg' = ResumeMsg(f)
     /\ plan_stack' = ReplaceTop(plan_stack, [f EXCEPT !.at = "msg"])
     /\ pc' = "proc"
     /\ UNCHANGED <<branch_lock, exception, raisedIn>>
  \/ BranchRaise(f)

\* new_gen resumed after the fresh checkpoint: do_branch() calls
\* branch_choice() again; None yields null(), an index starts that branch.
NewGenDoBranch ==
  /\ pc = "send" /\ exception = "None" /\ plan_stack # <<>>
  /\ Top.gen = "new_gen" /\ Top.at = "checkpoint"
  /\ \E choice \in branch_choice :
       /\ selLog' = Append(selLog, SelEntry(choice, "do_branch", Top))
       /\ IF choice = None
            THEN /\ msg' = null(Top.msg.trig)
                 /\ plan_stack' = ReplaceTop(plan_stack, [Top EXCEPT !.at = "null"])
                 /\ pc' = "proc"
                 /\ UNCHANGED <<branch_lock, exception, raisedIn, branchRuns>>
            ELSE /\ branchRuns' = Append(branchRuns, [msg |-> Top.msg, br |-> choice])
                 /\ RunBranch([Top EXCEPT !.br = choice, !.k = 0])
  /\ UNCHANGED <<other, sus, homs, pth, branch_msg, planCmds, msgs_seen, out>>

\* new_gen resumed inside the branch plan
NewGenBranch ==
  /\ pc = "send" /\ exception = "None" /\ plan_stack # <<>>
  /\ Top.gen = "new_gen" /\ Top.at = "branch"
  /\ RunBranch(Top)
  /\ UNCHANGED <<other, sus, homs, pth, branch_msg, planCmds, msgs_seen, out, selLog, branchRuns>>

\* new_gen resumed after `yield null()`: do_branch ends, `yield msg`
NewGenNull ==
  /\ pc = "send" /\ exception = "None" /\ plan_stack # <<>>
  /\ Top.gen = "new_gen" /\ Top.at = "null"
  /\ msg' = ResumeMsg(Top)
  /\ plan_stack' = ReplaceTop(plan_stack, [Top EXCEPT !.at = "msg"])
  /\ pc' = "proc"
  /\ UNCHANGED <<other, sus, homs, pth, branch_msg, planCmds, branch_lock, msgs_seen, exception, out,
                 selLog, branchRuns, raisedIn>>

\* new_gen resumed after `yield msg`: it ends, leaving the with block;
\* plan_mutator pops it and goes on with the generator below.
NewGenFinish ==
  /\ pc = "send" /\ exception = "None" /\ plan_stack # <<>>
  /\ Top.gen = "new_gen" /\ Top.at = "msg"
  /\ branch_lock' = WithExit(Top, branch_lock)
  /\ plan_stack' = Pop(plan_stack)
  /\ pc' = IF plan_stack' = <<>> THEN "done" ELSE "send"
  /\ UNCHANGED <<other, sus, homs, pth, branch_msg, planCmds, msg, msgs_seen, exception, out, selLog,
                 branchRuns, raisedIn>>

\* --------------------------------------------------------- plan_mutator
\* plan_stack[-1].send(ret) on the primary plan: its next message, or its end
SendPlan ==
  /\ pc = "send" /\ exception = "None" /\ plan_stack # <<>>
  /\ Top.gen = "plan"
  /\ \/ /\ Len(planCmds) < MaxPlanLen
        /\ \E kind \in Kinds :
             LET m == PlanMsg(kind, Len(planCmds) + 1) IN
             /\ planCmds' = Append(planCmds, m)
             /\ msg' = m
        /\ pc' = "proc"
        /\ UNCHANGED plan_stack
     \/ /\ plan_stack' = Pop(plan_stack)
        /\ pc' = IF plan_stack' = <<>> THEN "done" ELSE "send"
        /\ UNCHANGED <<planCmds, msg>>
  /\ UNCHANGED <<other, sus, homs, pth, branch_msg, branch_lock, msgs_seen, exception, out, selLog,
                 branchRuns, raisedIn>>

\* plan_stack[-1].throw(exception): no generator here catches it, so the top
\* one dies (a new_gen leaving its with block) and is popped; with the stack
\* empty the exception leaves branching_plan.
ThrowIn ==
  /\ pc = "send" /\ exception # "None" /\ plan_stack # <<>>
  /\ branch_lock' = WithExit(Top, branch_lock)
  /\ plan_stack' = Pop(plan_stack)
  /\ pc' = IF plan_stack' = <<>> THEN "raised" ELSE "send"
  /\ UNCHANGED <<other, sus, homs, pth, branch_msg, planCmds, msg, msgs_seen, exception, out, selLog,
                 branchRuns, raisedIn>>

\* The message goes out: `inner_ret = yield msg`
Yield ==
  /\ out' = Append(out, msg)
  /\ pc' = "yield"
  /\ UNCHANGED plan_stack

\* A message not seen before (by object identity) is shown to branch_handler;
\* a returned new_gen is pushed and run instead, anything else is yielded.
Process ==
  /\ pc = "proc"
  /\ IF msg \notin msgs_seen
       THEN LET h == branch_handler(msg, OwnLock(branch_lock, other.lock)) IN
            /\ msgs_seen' = msgs_seen \cup {msg}
            /\ branch_lock' = h.lock
            /\ IF h.new_gen
                 THEN /\ plan_stack' = Append(plan_stack, NewGenFrame(msg))
                      /\ pc' = "send"
                      /\ out' = out
                 ELSE Yield
       ELSE /\ Yield
            /\ UNCHANGED <<msgs_seen, branch_lock>>
  /\ UNCHANGED <<other, sus, homs, pth, branch_msg, planCmds, msg, exception, selLog, branchRuns, raisedIn>>

\* ------------------------------------------------------------- consumer
\* The consumer sends the result of the message back: next(), send()
ConsumerNext ==
  /\ pc = "yield"
  /\ pc' = "send"
  /\ UNCHANGED <<other, sus, homs, pth, branch_msg, plan_stack, planCmds, branch_lock, msg, msgs_seen,
                 exception, out, selLog, branchRuns, raisedIn>>

\* The command failed: the consumer throws the exception in at the yield;
\* plan_mutator stashes it and passes it to the top generator.
ConsumerThrow ==
  /\ pc = "yield"
  /\ exception' = "CommandFailure"
  /\ pc' = "send"
  /\ UNCHANGED <<other, sus, homs, pth, branch_msg, plan_stack, planCmds, branch_lock, msg, msgs_seen,
                 out, selLog, branchRuns, raisedIn>>

RECURSIVE CloseAll(_, _)
CloseAll(stack, lock) ==
  IF stack = <<>> THEN lock
  ELSE CloseAll(Tail(stack), WithExit(Head(stack), lock))

\* The session is cancelled: close() raises GeneratorExit at the yield, and
\* plan_mutator closes every generator on plan_stack.
ConsumerClose ==
  /\ pc = "yield"
  /\ branch_lock' = CloseAll(plan_stack, branch_lock)
  /\ plan_stack' = <<>>
  /\ pc' = "closed"
  /\ UNCHANGED <<other, sus, homs, pth, branch_msg, planCmds, msg, msgs_seen, exception, out, selLog,
                 branchRuns, raisedIn>>

\* ------------------------------------------------------- specification
OtherIdle == [lock |-> Free]

\* --------------------------------------------- a second branching_plan
\* The new_gen of the other call enters its `with branch_lock`, on the lock
\* of that call
OtherBranchStart ==
  /\ OwnLock(other.lock, branch_lock) = Free
  /\ other' = [other EXCEPT !.lock = 1]
  /\ UNCHANGED <<sus, homs, pth, branch_msg, plan_stack, planCmds, branch_lock,
                 pc, msg, msgs_seen, exception, out, selLog, branchRuns, raisedIn>>

\* The new_gen of the other call ends or is unwound, leaving its with block
OtherBranchEnd ==
  /\ other.lock # Free
  /\ other' = [other EXCEPT !.lock = Free]
  /\ UNCHANGED <<sus, homs, pth, branch_msg, plan_stack, planCmds, branch_lock,
                 pc, msg, msgs_seen, exception, out, selLog, branchRuns, raisedIn>>

SusIdle == [phase |-> "none"]

\* ------------------------------------------------------------- lcls_RE
EnergyFloor == 1       \* BeamEnergySuspendFloor(0.01), in units of 0.01
RateFloor == 2         \* BeamRateSuspendFloor(2)
Energies == {0, 1, 2}
Rates == {1, 2, 3}
PVs == {"pvA", "pvB"}
Severities == {"NO_ALARM", "MINOR", "MAJOR", "INVALID"}
SeverityRank == [NO_ALARM |-> 0, MINOR |-> 1, MAJOR |-> 2, INVALID |-> 3]

Suspender(cls, pv, level) == [cls |-> cls, pv |-> pv, level |-> level]

\* (faulty variant: the loop over alarming_pvs left out)
lcls_RE_NoAlarms(alarming_pvs) ==
  {Suspender("BeamEnergySuspendFloor", "energy", EnergyFloor),
   Suspender("BeamRateSuspendFloor", "rate", RateFloor)}

\* The suspenders lcls_RE installs on the RunEngine
lcls_RE(alarming_pvs) ==
  {Suspender("BeamEnergySuspendFloor", "energy", EnergyFloor),
   Suspender("BeamRateSuspendFloor", "rate", RateFloor)}
    \cup {Suspender("PvAlarmSuspend", pv, SeverityRank["MAJOR"]) : pv \in alarming_pvs}

\* A suspender asks for suspension: the signal is below the floor, or the
\* alarm is at or above the severity
Tripped(s) ==
  IF s.cls = "PvAlarmSuspend" THEN SeverityRank[sus.alarm[s.pv]] >= s.level
  ELSE IF s.cls = "BeamEnergySuspendFloor" THEN sus.energy < s.level
  ELSE sus.rate < s.level

AnyTripped == \E s \in sus.installed : Tripped(s)

SusNew ==
  [phase : {"new"}, alarming_pvs : {{}}, installed : {{}},
   energy : Energies, rate : Rates, alarm : [PVs -> Severities],
   suspended : {FALSE}, wasSuspended : {FALSE}, stream : {<<>>}]

\* lcls_RE(alarming_pvs): make the RunEngine and install the suspenders
SusInstall ==
  /\ sus.phase = "new"
  /\ \E pvs \in SUBSET PVs :
       sus' = [sus EXCEPT !.phase = "ready", !.alarming_pvs = pvs,
                          !.installed = lcls_RE(pvs)]
  /\ UNCHANGED <<other, homs, pth, branch_msg, plan_stack, planCmds, branch_lock,
                 pc, msg, msgs_seen, exception, out, selLog, branchRuns, raisedIn>>

\* A watched signal changes
SusSignal ==
  /\ sus.phase = "ready"
  /\ \/ \E e \in Energies \ {sus.energy} : sus' = [sus EXCEPT !.energy = e]
     \/ \E r \in Rates \ {sus.rate} : sus' = [sus EXCEPT !.rate = r]
     \/ \E pv \in PVs : \E v \in Severities \ {sus.alarm[pv]} :
          sus' = [sus EXCEPT !.alarm[pv] = v]
  /\ UNCHANGED <<other, homs, pth, branch_msg, plan_stack, planCmds, branch_lock,
                 pc, msg, msgs_seen, exception, out, selLog, branchRuns, raisedIn>>

\* The RunEngine takes the next command of the stream (of the primary plan
\* or of a branch plan): at a checkpoint with a suspender tripped it pauses
\* instead; any other command is dispatched.
SusDispatch ==
  /\ sus.phase = "ready" /\ ~sus.suspended
  /\ Len(sus.stream) < MaxDispatch
  /\ \E kind \in Kinds, src \in {"plan", "branch"} :
       IF kind = "checkpoint" /\ AnyTripped
         THEN sus' = [sus EXCEPT !.suspended = TRUE, !.wasSuspended = TRUE]
         ELSE sus' = [sus EXCEPT !.stream = Append(@, [command |-> kind, src |-> src])]
  /\ UNCHANGED <<other, homs, pth, branch_msg, plan_stack, planCmds, branch_lock,
                 pc, msg, msgs_seen, exception, out, selLog, branchRuns, raisedIn>>

\* Every suspender has cleared: the RunEngine resumes by itself
SusResume ==
  /\ sus.phase = "ready" /\ sus.suspended
  /\ ~AnyTripped
  /\ sus' = [sus EXCEPT !.suspended = FALSE]
  /\ UNCHANGED <<other, homs, pth, branch_msg, plan_stack, planCmds, branch_lock,
                 pc, msg, msgs_seen, exception, out, selLog, branchRuns, raisedIn>>

HomsIdle == [phase |-> "none"]

\* ------------------------------- make_homs_recover, make_pick_recover
NumSamples == 25                 \* num = 25 reads of the signal
Positions == {100, 239, 240, 241, 300}   \* motor.position values
Centers == {0, 240}              \* the center argument (0 by default)
Signals == {0, 1, 2}             \* get_thresh_signal values, in units of 0.1
Thresholds == {<<1, 1>>, <<1, 2>>}   \* has_beam_floor, in units of 0.1
YagPositions == {"IN", "OUT"}
\* The values NumSamples reads of one signal can return
Reads == {R \in SUBSET Signals : R # {} /\ Cardinality(R) <= NumSamples}

\* (faulty variant: `<=` for `<`)
DirInit_Le(position, center) == IF position <= center THEN 1 ELSE -1

\* homs_recover: dir_init from motor.position and center
DirInit(position, center) == IF position < center THEN 1 ELSE -1

\* homs_recover's plan(): prep_img_motors, then recover_threshold
RecoverPlan(yag_index, dir_init) ==
  <<[plan |-> "prep_img_motors", yag_index |-> yag_index, dir |-> 0, timeout |-> 10],
    [plan |-> "recover_threshold", yag_index |-> yag_index, dir |-> dir_init,
     timeout |-> 120]>>

NoRecover == [called |-> FALSE, pos |-> 0, dir |-> 0, emitted |-> <<>>]

NoPick == [called |-> FALSE, res |-> None]

HomsMade ==
  [phase : {"made"}, position : Positions, center : Centers, yag_index : {0, 1},
   y1 : YagPositions, y2 : YagPositions, reads1 : Reads, reads2 : Reads,
   threshold : Thresholds, recover : {NoRecover}, pick : {NoPick}]

\* The motor moves
HomsMotorMove ==
  /\ homs.phase = "made"
  /\ \E p \in Positions \ {homs.position} : homs' = [homs EXCEPT !.position = p]
  /\ UNCHANGED <<other, sus, pth, branch_msg, plan_stack, planCmds, branch_lock,
                 pc, msg, msgs_seen, exception, out, selLog, branchRuns, raisedIn>>

\* A yag is moved in or out, or the signal on a yag changes
HomsBeamChange ==
  /\ homs.phase = "made"
  /\ \/ \E v \in YagPositions \ {homs.y1} : homs' = [homs EXCEPT !.y1 = v, !.pick = NoPick]
     \/ \E v \in YagPositions \ {homs.y2} : homs' = [homs EXCEPT !.y2 = v, !.pick = NoPick]
     \/ \E R \in Reads \ {homs.reads1} : homs' = [homs EXCEPT !.reads1 = R, !.pick = NoPick]
     \/ \E R \in Reads \ {homs.reads2} : homs' = [homs EXCEPT !.reads2 = R, !.pick = NoPick]
  /\ UNCHANGED <<other, sus, pth, branch_msg, plan_stack, planCmds, branch_lock,
                 pc, msg, msgs_seen, exception, out, selLog, branchRuns, raisedIn>>

\* The plan made by make_homs_recover is invoked and run
HomsRecover ==
  /\ homs.phase = "made"
  /\ LET dir_init == DirInit(homs.position, homs.center) IN
     homs' = [homs EXCEPT !.recover =
                [called |-> TRUE, pos |-> homs.position, dir |-> dir_init,
                 emitted |-> RecoverPlan(homs.yag_index, dir_init)]]
  /\ UNCHANGED <<other, sus, pth, branch_msg, plan_stack, planCmds, branch_lock,
                 pc, msg, msgs_seen, exception, out, selLog, branchRuns, raisedIn>>

\* The function made by make_pick_recover is called
HomsPick ==
  /\ homs.phase = "made"
  /\ homs' = [homs EXCEPT !.pick =
                [called |-> TRUE,
                 res |-> pick_recover(homs.y1, homs.y2, homs.reads1, homs.reads2,
                                      homs.threshold)]]
  /\ UNCHANGED <<other, sus, pth, branch_msg, plan_stack, planCmds, branch_lock,
                 pc, msg, msgs_seen, exception, out, selLog, branchRuns, raisedIn>>

PthIdle == [phase |-> "none"]

\* ------------------------------------------- pswalker.path (prune_path, get_path)
NumDevices == 3
Devices == 1..NumDevices         \* identities of the device objects

\* The device lists a path can hold: distinct devices in any order
Paths ==
  {p \in UNION {[1..n -> Devices] : n \in 0..NumDevices} :
     \A i, j \in 1..Len(p) : i # j => p[i] # p[j]}

\* (faulty variant: the excluded devices are the ones kept)
prune_path_Inverted(devices, exclude) ==
  SelectSeq(devices, LAMBDA d : d \in exclude)

\* prune_path(path, exclude): a new path of the devices not excluded, in order
prune_path(devices, exclude) ==
  SelectSeq(devices, LAMBDA d : d \notin exclude)

\* (faulty variant: the derived path lists the devices last to first)
get_path_Reversed(devices, exclude) ==
  [i \in 1..Len(prune_path(devices, exclude)) |->
     prune_path(devices, exclude)[Len(prune_path(devices, exclude)) + 1 - i]]

\* get_path(device, exclude, path): with a path given, the filtered view of it
get_path(devices, exclude) == prune_path(devices, exclude)

NoQuery == [op |-> "none", exclude |-> {}, before |-> <<>>, result |-> <<>>]

PthMade == [phase : {"made"}, devices : Paths, last : {NoQuery}]

\* new_path = prune_path(path, exclude=some_devices)
PathPrune ==
  /\ pth.phase = "made"
  /\ \E exclude \in SUBSET Devices :
       pth' = [pth EXCEPT !.last =
                 [op |-> "prune", exclude |-> exclude, before |-> pth.devices,
                  result |-> prune_path(pth.devices, exclude)]]
  /\ UNCHANGED <<other, sus, homs, branch_msg, plan_stack, planCmds, branch_lock,
                 pc, msg, msgs_seen, exception, out, selLog, branchRuns, raisedIn>>

\* new_path = get_path(None, path=path)
PathGet ==
  /\ pth.phase = "made"
  /\ pth' = [pth EXCEPT !.last =
               [op |-> "get", exclude |-> {}, before |-> pth.devices,
                result |-> get_path(pth.devices, {})]]
  /\ UNCHANGED <<other, sus, homs, branch_msg, plan_stack, planCmds, branch_lock,
                 pc, msg, msgs_seen, exception, out, selLog, branchRuns, raisedIn>>

EngineInit ==
  /\ branch_msg \in TriggerKinds
  /\ plan_stack = <<PlanFrame>>
  /\ planCmds = <<>>
  /\ branch_lock = Free
  /\ pc = "send"
  /\ msg = NoMsg
  /\ msgs_seen = {}
  /\ exception = "None"
  /\ out = <<>>
  /\ selLog = <<>>
  /\ branchRuns = <<>>
  /\ raisedIn = {}

Init ==
  /\ EngineInit
  /\ other = OtherIdle
  /\ sus = SusIdle
  /\ homs = HomsIdle
  /\ pth = PthIdle

Next ==
  \/ SendPlan
  \/ NewGenStart
  \/ NewGenDoBranch
  \/ NewGenBranch
  \/ NewGenNull
  \/ NewGenFinish
  \/ ThrowIn
  \/ Process
  \/ ConsumerNext
  \/ ConsumerThrow
  \/ ConsumerClose

Spec == Init /\ [][Next]_vars

\* Two branching_plan calls consumed in any interleaving: this one in full,
\* the other by what it does to its lock
TwoNext ==
  \/ Next
  \/ OtherBranchStart
  \/ OtherBranchEnd

TwoSpec == Init /\ [][TwoNext]_vars

\* The stream keeps being consumed: the consumer answers every message with
\* next() or send(), never throwing into the stream nor closing it, and a
\* step that can be taken is taken
LiveNext ==
  \/ SendPlan
  \/ NewGenStart
  \/ NewGenDoBranch
  \/ NewGenBranch
  \/ NewGenNull
  \/ NewGenFinish
  \/ ThrowIn
  \/ Process
  \/ ConsumerNext

LiveSpec == Init /\ [][LiveNext]_vars /\ WF_vars(LiveNext)

\* A homs_skywalker session: branching_plan on the default trigger kind, with
\* the function made by make_pick_recover for selector, while the yags and
\* the signals on them change
SessionInit ==
  /\ EngineInit /\ branch_msg = "checkpoint"
  /\ other = OtherIdle
  /\ sus = SusIdle
  /\ homs \in {h \in HomsMade : h.position = 100 /\ h.center = 240 /\ h.yag_index = 0}
  /\ pth = PthIdle

\* The steps of new_gen past its fresh checkpoint (NewGenDoBranch,
\* NewGenBranch, NewGenNull) can be taken only from a state in which a detour
\* is under way; the session enters such a state by NewGenStart or never.
SessionNext ==
  \/ SendPlan
  \/ NewGenStart
  \/ NewGenFinish
  \/ ThrowIn
  \/ Process
  \/ ConsumerNext
  \/ ConsumerThrow
  \/ ConsumerClose
  \/ HomsBeamChange

SessionSpec == SessionInit /\ [][SessionNext]_vars

HomsInit ==
  /\ EngineInit /\ branch_msg = "checkpoint"
  /\ other = OtherIdle
  /\ sus = SusIdle
  /\ homs \in HomsMade
  /\ pth = PthIdle

HomsNext ==
  \/ HomsMotorMove
  \/ HomsBeamChange
  \/ HomsRecover
  \/ HomsPick

HomsSpec == HomsInit /\ [][HomsNext]_vars

PathInit ==
  /\ EngineInit /\ branch_msg = "checkpoint"
  /\ other = OtherIdle
  /\ sus = SusIdle
  /\ homs = HomsIdle
  /\ pth \in PthMade

PathNext ==
  \/ PathPrune
  \/ PathGet

PathSpec == PathInit /\ [][PathNext]_vars

SuspendInit ==
  /\ EngineInit /\ branch_msg = "checkpoint"
  /\ other = OtherIdle
  /\ sus \in SusNew
  /\ homs = HomsIdle
  /\ pth = PthIdle

SuspendNext ==
  \/ SusInstall
  \/ SusSignal
  \/ SusDispatch
  \/ SusResume

SuspendSpec == SuspendInit /\ [][SuspendNext]_vars

\* ------------------------------------------------------------ properties
IsPlanMsg(m) == m.src = "plan"

\* The primary plan's messages among those yielded so far, in output order
PrimaryOut == SelectSeq(out, IsPlanMsg)

IsPrefix(s, t) == Len(s) <= Len(t) /\ s = SubSeq(t, 1, Len(s))

SelectorAlwaysNone == \A i \in 1 .. Len(selLog) : selLog[i].res = None

\* The selector's result in new_gen (the call that decides on a detour) for
\* the primary message of index t; None when new_gen has not asked yet
FirstChoice(t) ==
  LET S == {i \in 1 .. Len(selLog) :
              selLog[i].site = "new_gen" /\ selLog[i].msg = planCmds[t]} IN
  IF S = {} THEN None ELSE selLog[CHOOSE i \in S : TRUE].res

\* What has been yielded for the primary message of index t: the messages of
\* its replacement sub-sequence and the message itself, in output order
Segment(t) ==
  LET ForT(m) == m.trig = t IN SelectSeq(out, ForT)

\* C1 (no-op branching): while every selector call so far has returned None,
\* the output is the primary plan's stream command for command: the output is
\* a prefix of what the primary plan has yielded, at most the one message
\* being handled is missing, and once the stream ends the two are equal.
C1_NoOpBranching ==
  SelectorAlwaysNone =>
    /\ IsPrefix(out, planCmds)
    /\ Len(out) >= Len(planCmds) - 1
    /\ (pc \in {"yield", "done"} => out = planCmds)

C1_Witness ==
  /\ pc = "done"
  /\ SelectorAlwaysNone
  /\ Len(selLog) = 2
  /\ Len(planCmds) = 2
  /\ out = planCmds

\* C2 (replacement at a branch point, trigger kind checkpoint): when the
\* selector's result at the primary trigger message of index t is a branch
\* index i, what is yielded in place of that message is one fresh checkpoint,
\* then the messages of branches[i] in order, then the message itself.
C2_Replacement ==
  branch_msg = "checkpoint" =>
    \A t \in 1 .. Len(planCmds) :
      LET i == FirstChoice(t)
          seg == Segment(t) IN
      (planCmds[t].command = branch_msg /\ i # None) =>
        \A j \in 1 .. Len(seg) :
          IF j = 1 THEN seg[j] = checkpoint(t)
          ELSE \/ seg[j] = BranchMsg(seg[j].command, t, i, j - 1)
               \/ (j = Len(seg) /\ seg[j] = planCmds[t])

\* C3 (resume fidelity): a message of a replacement sub-sequence is followed
\* in the output by a further message of the same sub-sequence or by the
\* original trigger message itself (the same object); the message new_gen
\* yields last is the message it was made for; and the primary message that
\* follows a primary message in the output is the next of the primary plan.
C3_ResumeFidelity ==
  /\ \A p \in 1 .. Len(out) - 1 :
       out[p].src # "plan" =>
         \/ (out[p + 1].src # "plan" /\ out[p + 1].trig = out[p].trig)
         \/ out[p + 1] = planCmds[out[p].trig]
  /\ \A n \in 1 .. Len(plan_stack) :
       (plan_stack[n].gen = "new_gen" /\ plan_stack[n].at = "msg"
          /\ pc \in {"proc", "yield"}) =>
         /\ msg = plan_stack[n].msg
         /\ msg = planCmds[msg.trig]
  /\ \A p \in 1 .. Len(PrimaryOut) - 1 :
       PrimaryOut[p + 1] = planCmds[PrimaryOut[p].trig + 1]

C3_Witness ==
  /\ Len(out) >= 4
  /\ \E p \in 1 .. Len(out) - 2 :
       /\ out[p].src = "branch"
       /\ out[p + 1] = planCmds[out[p].trig]
       /\ out[p + 2] = planCmds[out[p].trig + 1]

\* C4 (primary order preserved): the primary plan's messages in the output are
\* the primary plan's stream so far, once each and in order, at most the one
\* being handled missing; when the stream ends normally they are all of it.
C4_PrimaryOrder ==
  /\ IsPrefix(PrimaryOut, planCmds)
  /\ Len(PrimaryOut) >= Len(planCmds) - 1
  /\ (pc = "done" => PrimaryOut = planCmds)

C4_Witness ==
  /\ pc = "done"
  /\ Len(branchRuns) = 2
  /\ Len(planCmds) = 2
  /\ Len(out) > Len(planCmds)
  /\ PrimaryOut = planCmds

NewGens == {n \in 1 .. Len(plan_stack) : plan_stack[n].gen = "new_gen"}

\* Branching: a replacement sub-sequence is being yielded (a new_gen is
\* between its fresh checkpoint and its last message); Normal otherwise
Branching ==
  \E n \in NewGens : plan_stack[n].at \in {"checkpoint", "branch", "null"}

EachMsgOnce ==
  \A p \in 1 .. Len(out), q \in 1 .. Len(out) : out[p] = out[q] => p = q

\* C5 (single active branch): there is never more than one new_gen on the
\* stack, and a new_gen is only ever made for a message of the primary plan:
\* the fresh checkpoint and the messages of a branch plan start no branch.
C5_SingleActiveBranch ==
  /\ Cardinality(NewGens) <= 1
  /\ \A n \in NewGens : plan_stack[n].msg.src = "plan"
  /\ \A i \in 1 .. Len(selLog) : selLog[i].msg.src = "plan"
  /\ \A i \in 1 .. Len(branchRuns) : branchRuns[i].msg.src = "plan"

C5_Witness ==
  /\ pc = "yield"
  /\ Branching
  /\ msg.src = "branch"
  /\ msg.command = branch_msg
  /\ out[Len(out)] = msg
  /\ \E p \in 1 .. Len(out) - 1 :
       out[p].src = "checkpoint" /\ out[p].command = branch_msg

\* C6 (selector only at trigger commands): every call of the selector was
\* made for a message of the trigger kind, and any new_gen, which is what
\* calls the selector, is one made for a message of the trigger kind.
C6_SelectorOnlyAtTrigger ==
  /\ \A i \in 1 .. Len(selLog) : selLog[i].msg.command = branch_msg
  /\ \A n \in NewGens : plan_stack[n].msg.command = branch_msg

C6_Witness ==
  /\ Len(selLog) >= 2
  /\ \E p \in 1 .. Len(out) : out[p].src = "plan" /\ out[p].command # branch_msg
  /\ \E p \in 1 .. Len(out) : out[p].src = "branch" /\ out[p].command # branch_msg

\* C7 (non-trigger pass-through): handling a message whose kind is not the
\* trigger kind yields that message at once and leaves the lock and the
\* generator stack (Normal or Branching) as they were.
C7_NonTriggerPassThrough ==
  [][(pc = "proc" /\ msg.command # branch_msg) =>
       /\ out' = Append(out, msg)
       /\ pc' = "yield"
       /\ branch_lock' = branch_lock
       /\ plan_stack' = plan_stack
       /\ Branching' = Branching]_vars

C7_Witness ==
  /\ pc = "yield"
  /\ msg.command # branch_msg
  /\ msg.src = "branch"
  /\ out[Len(out)] = msg
  /\ branch_lock # Free
  /\ Branching

\* C8 (reentrant branch attempt): handling a message of the trigger kind while
\* the lock is held yields that message at once, with no selector call, no
\* exception, no new generator and the lock still held by the same owner;
\* and no message object is yielded twice.
C8_ReentrantPassThrough ==
  /\ []EachMsgOnce
  /\ [][(pc = "proc" /\ msg.command = branch_msg /\ branch_lock # Free) =>
          /\ out' = Append(out, msg)
          /\ pc' = "yield"
          /\ selLog' = selLog
          /\ exception' = exception
          /\ branch_lock' = branch_lock
          /\ plan_stack' = plan_stack]_vars

C8_Witness ==
  /\ pc = "yield"
  /\ msg.command = branch_msg
  /\ msg.src \in {"branch", "checkpoint"}
  /\ out[Len(out)] = msg
  /\ branch_lock = msg.trig
  /\ exception = "None"
  /\ selLog[Len(selLog)].msg = planCmds[msg.trig]

\* C9 (a branch failure aborts the stream): once a branch plan has raised, the
\* exception is on its way out of branching_plan or has left it, nothing more
\* is yielded, the message the branch was run for is not yielded, and neither
\* the selector nor a branch plan is called again.
C9_BranchFailureAborts ==
  /\ [](raisedIn # {} =>
          /\ exception = "BranchFailure"
          /\ \/ (pc = "raised" /\ plan_stack = <<>>)
             \/ (pc = "send" /\ plan_stack # <<>> /\ NewGens = {})
          /\ \A t \in raisedIn, p \in 1 .. Len(out) : out[p] # planCmds[t])
  /\ [][raisedIn # {} =>
          /\ out' = out
          /\ selLog' = selLog
          /\ branchRuns' = branchRuns
          /\ raisedIn' = raisedIn]_vars

C9_Witness ==
  /\ pc = "raised"
  /\ raisedIn = {2}
  /\ exception = "BranchFailure"
  /\ out[Len(out)].src = "branch"
  /\ Len(planCmds) = 2

Aborted == pc \in {"closed", "raised"}

\* C10 (lock released on abort): after the stream is closed or an exception
\* has left branching_plan, the lock is free and no generator is left; and
\* from the moment an exception is thrown in, nothing more is yielded.
C10_LockReleasedOnAbort ==
  /\ [](Aborted => (branch_lock = Free /\ plan_stack = <<>>))
  /\ [][(Aborted \/ exception # "None") => out' = out]_vars

C10_Witness ==
  /\ Aborted
  /\ exception # "BranchFailure"
  /\ out[Len(out)].src = "branch"
  /\ branch_lock = Free

\* The conditions the RunEngine of lcls_RE is to watch: the beam energy floor,
\* the beam rate floor, and a MAJOR alarm on any of the PVs given
InViolation(u) ==
  \/ u.energy < EnergyFloor
  \/ u.rate < RateFloor
  \/ \E pv \in u.alarming_pvs : u.alarm[pv] \in {"MAJOR", "INVALID"}

\* C11 (suspension): with the suspenders of lcls_RE installed, no checkpoint
\* of the stream, of the primary plan or of a branch plan, is passed while a
\* condition is in violation; while the RunEngine is suspended nothing is
\* dispatched; and it leaves suspension only with every condition cleared.
C11_Suspension ==
  /\ [][(sus.phase = "ready" /\ sus'.stream # sus.stream) =>
          /\ ~sus.suspended
          /\ (sus'.stream[Len(sus'.stream)].command = "checkpoint" => ~InViolation(sus))]_vars
  /\ [][(sus.phase = "ready" /\ sus.suspended /\ ~sus'.suspended) => ~InViolation(sus')]_vars
  /\ [](sus.phase = "ready" /\ sus.suspended /\ ~InViolation(sus) => ENABLED SusResume)

C11_Witness ==
  /\ sus.phase = "ready"
  /\ sus.alarming_pvs = {"pvA"}
  /\ sus.wasSuspended /\ ~sus.suspended
  /\ Len(sus.stream) = 2
  /\ sus.stream[2] = [command |-> "checkpoint", src |-> "branch"]

\* C12 (session isolation): whatever the lock of the other call, a trigger
\* message this call sees for the first time with its own lock free gets a
\* new_gen (it is not passed through), that new_gen can run at once and call
\* the selector, and the other call can likewise take its own lock whenever
\* that lock is free.
C12_SessionIsolation ==
  /\ [][(pc = "proc" /\ msg.command = branch_msg /\ msg \notin msgs_seen
           /\ branch_lock = Free /\ pc' # pc) =>
          /\ plan_stack' = Append(plan_stack, NewGenFrame(msg))
          /\ out' = out
          /\ pc' = "send"]_vars
  /\ []((pc = "send" /\ exception = "None" /\ plan_stack # <<>>
           /\ Top.gen = "new_gen" /\ Top.at = "start") => ENABLED NewGenStart)
  /\ [](other.lock = Free => ENABLED OtherBranchStart)

C12_Witness ==
  /\ other.lock # Free
  /\ branch_lock # Free
  /\ pc = "yield"
  /\ msg.src = "branch"
  /\ msg.trig = 2
  /\ Len(selLog) >= 3

\* C13 (recovery direction): whenever the recovery plan has been invoked, its
\* initial direction is +1 if the motor position at that moment was strictly
\* below center and -1 otherwise (equal included); center 240 gives +1 from
\* 100 and -1 from 300; and what it emits is the imager preparation followed
\* by the threshold search in that direction.
C13_RecoveryDirection ==
  (homs.phase = "made" /\ homs.recover.called) =>
    LET r == homs.recover IN
    /\ (r.pos < homs.center => r.dir = 1)
    /\ (r.pos >= homs.center => r.dir = -1)
    /\ (homs.center = 240 /\ r.pos = 100 => r.dir = 1)
    /\ (homs.center = 240 /\ r.pos = 300 => r.dir = -1)
    /\ Len(r.emitted) = 2
    /\ r.emitted[1].plan = "prep_img_motors"
    /\ r.emitted[2].plan = "recover_threshold"
    /\ r.emitted[2].dir = r.dir

C13_Witness ==
  /\ homs.phase = "made"
  /\ homs.recover.called
  /\ homs.center = 240
  /\ homs.recover.pos = 240
  /\ homs.position = 100
  /\ homs.recover.dir = -1

\* The policy of the selector as stated: the first yag decides when it is in
PickPolicy(y1, y2, reads1, reads2, threshold) ==
  IF y1 = "IN" THEN (IF Max(reads1) < threshold[1] THEN 0 ELSE None)
  ELSE IF y2 = "IN" THEN (IF Max(reads2) < threshold[2] THEN 1 ELSE None)
  ELSE None

\* C14 (selector policy): the function made by make_pick_recover returns 0
\* when the first yag is in and the maximum of its samples is below the first
\* floor, 1 when the first is not in, the second is in and the maximum of its
\* samples is below the second floor, and None otherwise.
C14_SelectorPolicy ==
  (homs.phase = "made" /\ homs.pick.called) =>
    homs.pick.res = PickPolicy(homs.y1, homs.y2, homs.reads1, homs.reads2,
                               homs.threshold)

Range(f) == {f[i] : i \in DOMAIN f}

\* C15 (exclusion correctness): after prune_path the devices of the returned
\* path are exactly the original devices minus the excluded ones, kept in
\* their order and each once; every device of the result is a device of the
\* original; and the original path still holds the devices it held before.
C15_ExclusionCorrectness ==
  (pth.phase = "made" /\ pth.last.op = "prune") =>
    LET r == pth.last IN
    /\ Range(r.result) = Range(r.before) \ r.exclude
    /\ Range(r.result) \subseteq Range(pth.devices)
    /\ Len(r.result) = Cardinality(Range(r.result))
    /\ \A i, j \in 1..Len(r.before) :
         (i < j /\ r.before[i] \notin r.exclude /\ r.before[j] \notin r.exclude) =>
           \E a, b \in 1..Len(r.result) :
             a < b /\ r.result[a] = r.before[i] /\ r.result[b] = r.before[j]
    /\ pth.devices = r.before

C15_Witness ==
  /\ pth.phase = "made"
  /\ pth.last.op = "prune"
  /\ pth.devices = <<2, 1, 3>>
  /\ pth.last.exclude = {1}
  /\ pth.last.result = <<2, 3>>

\* C16 (idempotent re-query): get_path on an existing path with no exclusions
\* gives a device sequence equal to the source's, element by element.
C16_IdempotentRequery ==
  (pth.phase = "made" /\ pth.last.op = "get") =>
    /\ Len(pth.last.result) = Len(pth.devices)
    /\ \A i \in 1..Len(pth.devices) : pth.last.result[i] = pth.devices[i]

C16_Witness ==
  /\ pth.phase = "made"
  /\ pth.last.op = "get"
  /\ pth.devices = <<3, 1, 2>>
  /\ pth.last.result = <<3, 1, 2>>

\* C18 as stated (lock window): in every state in which a command of a branch
\* plan is emitted the lock is free.
C18_LockWindow ==
  (pc = "yield" /\ msg.src = "branch") => branch_lock = Free

\* C18 (lock window, amended): the handler's own non-blocking acquisition is
\* released before it returns, so a new_gen that has not run yet finds the
\* lock free; from its first run to its end new_gen holds the lock, so the
\* lock is held exactly while a started new_gen is on the stack, and it is
\* held, for that trigger, in every state in which a fresh checkpoint, a
\* branch command or a null command is emitted.
C18_LockHeldForDetour ==
  /\ (branch_lock # Free) <=> (\E n \in NewGens : plan_stack[n].at # "start")
  /\ \A n \in NewGens : plan_stack[n].at # "start" => branch_lock = plan_stack[n].msg.trig
  /\ (pc = "yield" /\ msg.src \in {"checkpoint", "branch", "null"}) =>
       (branch_lock # Free /\ branch_lock = msg.trig)

C18_Witness ==
  /\ pc = "yield"
  /\ msg.src = "branch"
  /\ out[Len(out)] = msg
  /\ branch_lock = msg.trig
  /\ branch_lock # Free

\* C19 as stated (fresh trigger of the configured kind): the fresh command
\* that opens a replacement sub-sequence is of the kind given as branch_msg.
C19_FreshTriggerKind ==
  \A p \in 1 .. Len(out) :
    out[p].src = "checkpoint" => out[p].command = branch_msg

\* C19 (fresh command, amended): whatever kind is given as branch_msg, a
\* replacement sub-sequence that holds a branch or null command opens with a
\* newly made checkpoint command, which is not a message of the primary plan;
\* it is of the trigger kind only when the trigger kind is checkpoint.
C19_FreshCheckpoint ==
  /\ \A p \in 1 .. Len(out) :
       out[p].src = "checkpoint" =>
         /\ out[p].command = "checkpoint"
         /\ out[p] \notin Range(planCmds)
         /\ (out[p].command = branch_msg <=> branch_msg = "checkpoint")
  /\ \A t \in 1 .. Len(planCmds) :
       LET seg == Segment(t) IN
       (\E j \in 1 .. Len(seg) : seg[j].src \in {"branch", "null"}) =>
         (seg[1].src = "checkpoint" /\ seg[1].command = "checkpoint")

C19_Witness ==
  /\ branch_msg = "set"
  /\ pc = "yield"
  /\ msg.src = "branch"
  /\ planCmds[msg.trig].command = "set"
  /\ Segment(msg.trig)[1].command = "checkpoint"

\* C20 (one decision per trigger): the selector is called once for each
\* trigger message a new_gen is made for, the branch that runs is the one
\* of the index that call returned, and no null command is ever emitted.
C20_OneDecisionPerTrigger ==
  /\ \A i, j \in 1 .. Len(selLog) : selLog[i].msg = selLog[j].msg => i = j
  /\ \A i \in 1 .. Len(branchRuns) :
       branchRuns[i].br = FirstChoice(branchRuns[i].msg.trig)
  /\ \A p \in 1 .. Len(out) : out[p].src # "null"

SelectorAlwaysIndex == \A i \in 1 .. Len(selLog) : selLog[i].res # None

\* The runs of a branch plan started for the message m
RunsFor(m) == {i \in 1 .. Len(branchRuns) : branchRuns[i].msg = m}

\* The calls of the selector made for the message m
CallsFor(m) == {i \in 1 .. Len(selLog) : selLog[i].msg = m}

\* C21 (no duplicate branch execution): while every selector call so far has
\* returned an index, a trigger message of the primary plan has had at most
\* one run of a branch plan, and exactly one once it has been emitted; branch
\* runs and selector calls are made for messages of the primary plan only,
\* never for the fresh checkpoint or a message of a branch, at most two calls
\* for one trigger; and no message is emitted twice.
C21_NoDuplicateBranch ==
  SelectorAlwaysIndex =>
    /\ \A t \in 1 .. Len(planCmds) :
         planCmds[t].command = branch_msg =>
           /\ Cardinality(RunsFor(planCmds[t])) <= 1
           /\ Cardinality(CallsFor(planCmds[t])) <= 2
           /\ (planCmds[t] \in Range(out) => Cardinality(RunsFor(planCmds[t])) = 1)
    /\ \A i \in 1 .. Len(branchRuns) : branchRuns[i].msg \in Range(planCmds)
    /\ \A i \in 1 .. Len(selLog) : selLog[i].msg \in Range(planCmds)
    /\ EachMsgOnce

C21_Witness ==
  /\ SelectorAlwaysIndex
  /\ pc = "done"
  /\ Len(planCmds) = 2
  /\ \A t \in 1 .. 2 : planCmds[t].command = branch_msg
  /\ Len(branchRuns) = 2
  /\ \E p \in 1 .. Len(out) : out[p].src = "branch" /\ out[p].command = branch_msg

\* A primary message is handled once it is emitted or a new_gen made for it
\* has run
Handled(t) ==
  \/ planCmds[t] \in Range(out)
  \/ \E n \in NewGens : plan_stack[n].msg = planCmds[t] /\ plan_stack[n].at # "start"

\* A detour has been taken for the primary message of index t: its fresh
\* checkpoint has been emitted or its new_gen has just yielded it
DetourAt(t) ==
  \/ \E j \in 1 .. Len(Segment(t)) : Segment(t)[j].src = "checkpoint"
  \/ \E n \in NewGens : plan_stack[n].msg = planCmds[t] /\ plan_stack[n].at = "checkpoint"

\* C22 (no state carried between triggers): every trigger message of the
\* primary plan that has been handled has had the selector called for it in
\* new_gen, whatever happened at earlier triggers, and a detour has been taken
\* for it exactly when that call returned an index; a trigger message shown to
\* branch_handler for the first time always finds the lock free.
C22_FreshDecision ==
  /\ \A t \in 1 .. Len(planCmds) :
       (planCmds[t].command = branch_msg /\ Handled(t)) =>
         /\ \E i \in CallsFor(planCmds[t]) : selLog[i].site = "new_gen"
         /\ (DetourAt(t) <=> FirstChoice(t) # None)
  /\ (pc = "proc" /\ msg.src = "plan" /\ msg.command = branch_msg
        /\ msg \notin msgs_seen) => branch_lock = Free

C22_Witness ==
  /\ pc = "done"
  /\ Len(planCmds) = 2
  /\ \A t \in 1 .. 2 : planCmds[t].command = branch_msg
  /\ DetourAt(1) /\ ~DetourAt(2)
  /\ FirstChoice(1) # None /\ FirstChoice(2) = None

\* A new_gen that has not run yet is next to run: its first step is the
\* blocking acquisition of `with branch_lock:`
NewGenToStart ==
  /\ pc = "send" /\ exception = "None" /\ plan_stack # <<>>
  /\ Top.gen = "new_gen" /\ Top.at = "start"

\* C24 (no self-deadlock): a new_gen that has not run yet is the only new_gen
\* and the top of the stack; the lock is free from the moment branch_handler
\* returns it, and when it is next to run its blocking acquisition can
\* proceed at once.
C24_NoSelfDeadlock ==
  /\ \A n \in NewGens : plan_stack[n].at = "start" =>
       /\ branch_lock = Free
       /\ n = Len(plan_stack)
       /\ NewGens = {n}
  /\ NewGenToStart => ENABLED NewGenStart

C24_Witness ==
  /\ NewGenToStart
  /\ branch_lock = Free
  /\ Top.msg.trig = 2
  /\ Len(branchRuns) = 1
  /\ \E p \in 1 .. Len(out) : out[p].src = "branch"

Finished == pc \in {"done", "raised", "closed"}

\* C23 (return to Normal and termination): with no new_gen on the stack the
\* lock is free; the step that ends a new_gen whose branch is exhausted
\* leaves no new_gen behind and the lock free; a held lock is always freed
\* later; and the stream ends, for good, with no branch running and the lock
\* free, whatever the selector returned.
C23_ReturnToNormal ==
  /\ [](NewGens = {} => branch_lock = Free)
  /\ [][(pc = "send" /\ exception = "None" /\ plan_stack # <<>>
           /\ Top.gen = "new_gen" /\ Top.at = "msg") =>
          (NewGens' = {} /\ branch_lock' = Free /\ ~Branching')]_vars
  /\ (branch_lock # Free) ~> (branch_lock = Free /\ ~Branching)
  /\ <>[](Finished /\ NewGens = {} /\ branch_lock = Free)

C23_Witness ==
  /\ pc = "done"
  /\ NewGens = {}
  /\ branch_lock = Free
  /\ Len(branchRuns) = 1
  /\ \E p \in 1 .. Len(out) : out[p].src = "null"

====
